---- MODULE Spec2Model ----
(***************************************************************************)
(* State-machine model of the gfw_get_feature_image scripts:               *)
(*   get_images_raw.py      (safe_filename, iterate_urls, main)            *)
(*   convert_bins_to_png.py (decode_entry, convert_file)                   *)
(*   get_features.py        (adjust_matched_filter, summarize_layers,      *)
(*                           truncate_geometry, print_geometries, main)    *)
(* Python strings are sequences of one-character strings; Python lists are *)
(* sequences; None is the model value None.                                *)
(***************************************************************************)
EXTENDS Integers, Sequences, FiniteSets, TLC

VARIABLES
    \* get_images_raw.safe_filename: argument, call position, return value
    sf_name, sf_pc, sf_result,
    \* get_images_raw.main: position, input file, --limit, urls, generator
    \* position and its seen set, counters, and the calls made to download_image
    dl_pc, dl_input, dl_limit, dl_urls, dl_pos, dl_seen, dl_url,
    dl_successes, dl_failures, dl_calls, dl_stdout, dl_stderr,
    \* convert_bins_to_png.convert_file: position, entries consumed, the last
    \* turn of its loop (what decode_entry did and the write_bytes call that
    \* followed), len(output_paths) and the lines printed
    cv_pc, cv_idx, cv_turn, cv_outputs, cv_stdout,
    \* get_features.adjust_matched_filter: its arguments, the position, and
    \* what the first and the second call returned
    am_url, am_choice, am_pc, am_once, am_twice,
    \* GeometryAssembler: the rings a producer encoded, the geometry type and
    \* command stream of the feature, the position and the geometry assembled
    ge_rings, ge_type, ge_stream, ge_pc, ge_result,
    \* the consumers of a decoded tile in get_features: the tile as decoded,
    \* the tile now, the function called last and what it printed or returned
    cs_tile0, cs_tile, cs_fn, cs_out,
    \* get_features.main: the parsed arguments, what the server will answer,
    \* the position, url, raw_tile and decoded, the exception being raised,
    \* the lines printed to stdout and to stderr, the exit status, and the
    \* number of calls of requests.get and of decode_tile
    mn_args, mn_response, mn_pc, mn_url, mn_raw, mn_decoded, mn_exc,
    mn_stdout, mn_stderr, mn_exit, mn_fetches, mn_decodes

sfVars == <<sf_name, sf_pc, sf_result>>
dlVars == <<dl_pc, dl_input, dl_limit, dl_urls, dl_pos, dl_seen, dl_url,
            dl_successes, dl_failures, dl_calls, dl_stdout, dl_stderr>>
cvVars == <<cv_pc, cv_idx, cv_turn, cv_outputs, cv_stdout>>
amVars == <<am_url, am_choice, am_pc, am_once, am_twice>>
geVars == <<ge_rings, ge_type, ge_stream, ge_pc, ge_result>>
csVars == <<cs_tile0, cs_tile, cs_fn, cs_out>>
mnVars == <<mn_args, mn_response, mn_pc, mn_url, mn_raw, mn_decoded, mn_exc,
            mn_stdout, mn_stderr, mn_exit, mn_fetches, mn_decodes>>
vars == <<sfVars, dlVars, cvVars, amVars, geVars, csVars, mnVars>>
\* the variables of the other programs, which an action of one leaves alone
notSf == <<dlVars, cvVars, amVars, geVars, csVars, mnVars>>
notDl == <<sfVars, cvVars, amVars, geVars, csVars, mnVars>>
notCv == <<sfVars, dlVars, amVars, geVars, csVars, mnVars>>
notAm == <<sfVars, dlVars, cvVars, geVars, csVars, mnVars>>
notGe == <<sfVars, dlVars, cvVars, amVars, csVars, mnVars>>
notCs == <<sfVars, dlVars, cvVars, amVars, geVars, mnVars>>
notMn == <<sfVars, dlVars, cvVars, amVars, geVars, csVars>>

\* Python's None where the other values are strings
None == "None"
\* an optional integer (argparse default None): <<>> is None, <<n>> is n
NoInt == <<>>

-----------------------------------------------------------------------------
(* Bounds of the model.                                                    *)

\* longest argument given to safe_filename
MaxNameLen == 3
\* longest URL list in the input file of get_images_raw
MaxUrls == 3
\* most entries in the JSON array of one .bin file
MaxEntries == 2
\* most pieces (of NameUnits) an entry's "name" string is made of
MaxNameParts == 2
\* most fields in the query string of a tile URL
MaxParams == 2
\* most rings in the geometry of one feature
MaxRings == 3
\* most top-level fields in a tile buffer
MaxChunks == 2
\* largest max_features and max_coords given to a consumer (the smallest
\* is -1)
MaxArg == 2

\* WireReader: a varint has at most 10 bytes
MaxVarintBytes == 10

-----------------------------------------------------------------------------
(* Python built-ins used by the scripts.                                   *)

\* all sequences over S of length at most n
SeqsUpTo(S, n) == UNION {[1..k -> S] : k \in 0..n}

\* s[:n], a Python slice with an end index only (n may be negative)
PySliceTo(s, n) ==
    IF n >= 0 THEN SubSeq(s, 1, IF n < Len(s) THEN n ELSE Len(s))
    ELSE SubSeq(s, 1, IF Len(s) + n > 0 THEN Len(s) + n ELSE 0)

\* str.isspace() characters of the model's alphabet
Whitespace == {" ", "\t", "\n"}

RECURSIVE LStrip(_, _)
\* s.lstrip(chars)
LStrip(s, chars) ==
    IF s # <<>> /\ Head(s) \in chars THEN LStrip(Tail(s), chars) ELSE s

RECURSIVE RStrip(_, _)
\* s.rstrip(chars)
RStrip(s, chars) ==
    IF s # <<>> /\ s[Len(s)] \in chars
    THEN RStrip(SubSeq(s, 1, Len(s) - 1), chars)
    ELSE s

\* s.strip(): leading and trailing whitespace removed
Strip(s) == RStrip(LStrip(s, Whitespace), Whitespace)

-----------------------------------------------------------------------------
(* get_images_raw.py: safe_filename                                        *)

\* forbidden = '<>:"/\\|?*'
forbidden == {"<", ">", ":", "\"", "/", "\\", "|", "?", "*"}

\* the fallback name 'image'
image == <<"i", "m", "a", "g", "e">>

\* "".join("_" if ch in forbidden else ch for ch in name)
ReplaceForbidden(name) ==
    [i \in 1..Len(name) |-> IF name[i] \in forbidden THEN "_" ELSE name[i]]

\* safe_filename(name): cleaned.strip().rstrip(".") or "image"
safe_filename(name) ==
    LET cleaned == RStrip(Strip(ReplaceForbidden(name)), {"."})
    IN  IF cleaned = <<>> THEN image ELSE cleaned

\* characters the arguments of safe_filename are drawn from
NameChars == forbidden \cup {"a", ".", " ", "\t"}

SfInit ==
    /\ sf_name \in SeqsUpTo(NameChars, MaxNameLen)
    /\ sf_pc = "call"
    /\ sf_result = <<>>

\* the call safe_filename(sf_name) returns
SafeFilenameReturn ==
    /\ sf_pc = "call"
    /\ sf_result' = safe_filename(sf_name)
    /\ sf_pc' = "returned"
    /\ UNCHANGED <<sf_name, notSf>>

SfIdle == sf_name = <<>> /\ sf_pc = "idle" /\ sf_result = <<>>

-----------------------------------------------------------------------------
(* get_images_raw.py: load_urls, iterate_urls, main                        *)

\* the URLs that may appear in img_urls.json
Urls == {"u1", "u2", "u3"}

\* what load_urls finds in the input file: a JSON array of strings
\* (valid, with its urls), or bad JSON or JSON of another shape
InputFiles ==
    {[valid |-> TRUE, urls |-> u] : u \in SeqsUpTo(Urls, MaxUrls)}
    \cup {[valid |-> FALSE, urls |-> <<>>]}

DlInit ==
    /\ dl_input \in InputFiles
    /\ dl_limit \in {NoInt} \cup {<<n>> : n \in 0..MaxUrls + 1}
    /\ dl_pc = "load"
    /\ dl_urls = <<>>
    /\ dl_pos = 0
    /\ dl_seen = {}
    /\ dl_url = None
    /\ dl_successes = 0
    /\ dl_failures = <<>>
    /\ dl_calls = <<>>
    /\ dl_stdout = <<>>
    /\ dl_stderr = <<>>

\* main: load_urls raises ValueError: the message is printed, sys.exit(1)
LoadUrlsFails ==
    /\ dl_pc = "load"
    /\ ~dl_input.valid
    /\ dl_stderr' = Append(dl_stderr, <<"ValueError">>)
    /\ dl_pc' = "exit1"
    /\ UNCHANGED <<notDl, dl_input, dl_limit, dl_urls, dl_pos, dl_seen, dl_url,
                   dl_successes, dl_failures, dl_calls, dl_stdout>>

\* main: urls = load_urls(input_path); if args.limit is not None:
\* urls = urls[:args.limit]; the counters and the generator are created
LoadUrls ==
    /\ dl_pc = "load"
    /\ dl_input.valid
    /\ dl_urls' = IF dl_limit # NoInt THEN PySliceTo(dl_input.urls, dl_limit[1])
                  ELSE dl_input.urls
    /\ dl_pos' = 0
    /\ dl_seen' = {}
    /\ dl_successes' = 0
    /\ dl_failures' = <<>>
    /\ dl_pc' = "next"
    /\ UNCHANGED <<notDl, dl_input, dl_limit, dl_url, dl_calls, dl_stdout, dl_stderr>>

\* iterate_urls without its seen check: every entry is yielded
NextUnseenNoSkip(urls, pos, seen) ==
    IF pos >= Len(urls) THEN 0 ELSE pos + 1

RECURSIVE NextUnseen(_, _, _)
\* iterate_urls: the position of the first url after pos that is not in
\* seen, or 0 when the list is exhausted
NextUnseen(urls, pos, seen) ==
    IF pos >= Len(urls) THEN 0
    ELSE IF urls[pos + 1] \in seen THEN NextUnseen(urls, pos + 1, seen)
    ELSE pos + 1

\* the for loop asks the generator iterate_urls(urls) for its next url
IterateUrls ==
    /\ dl_pc = "next"
    /\ LET p == NextUnseen(dl_urls, dl_pos, dl_seen)
       IN  IF p = 0
           THEN /\ dl_pc' = "summary"
                /\ dl_pos' = Len(dl_urls)
                /\ UNCHANGED <<dl_seen, dl_url>>
           ELSE /\ dl_pc' = "download"
                /\ dl_pos' = p
                /\ dl_seen' = dl_seen \cup {dl_urls[p]}
                /\ dl_url' = dl_urls[p]
    /\ UNCHANGED <<notDl, dl_input, dl_limit, dl_urls, dl_successes, dl_failures,
                   dl_calls, dl_stdout, dl_stderr>>

\* loop body: download_image(session, url, ...) returns or raises
DownloadImage ==
    /\ dl_pc = "download"
    /\ \E raises \in BOOLEAN :
        /\ dl_calls' = Append(dl_calls, [url |-> dl_url, raised |-> raises])
        /\ IF raises
           THEN /\ dl_failures' = Append(dl_failures, dl_url)
                /\ dl_stderr' = Append(dl_stderr, <<"Failed", dl_url>>)
                /\ UNCHANGED <<dl_successes, dl_stdout>>
           ELSE /\ dl_successes' = dl_successes + 1
                /\ dl_stdout' = Append(dl_stdout, <<"HTTP", dl_url>>)
                /\ UNCHANGED <<dl_failures, dl_stderr>>
    /\ dl_pc' = "next"
    /\ UNCHANGED <<notDl, dl_input, dl_limit, dl_urls, dl_pos, dl_seen, dl_url>>

\* after the loop: the Done line, then the failed URLs on stderr
PrintSummary ==
    /\ dl_pc = "summary"
    /\ dl_stdout' = Append(dl_stdout, <<"Done", dl_successes, Len(dl_failures)>>)
    /\ dl_stderr' = IF dl_failures # <<>>
                    THEN dl_stderr \o <<<<"Failed URLs">>>> \o
                         [i \in 1..Len(dl_failures) |-> <<"url", dl_failures[i]>>]
                    ELSE dl_stderr
    /\ dl_pc' = "done"
    /\ UNCHANGED <<notDl, dl_input, dl_limit, dl_urls, dl_pos, dl_seen, dl_url,
                   dl_successes, dl_failures, dl_calls>>

DlIdle ==
    /\ dl_pc = "idle" /\ dl_input = [valid |-> FALSE, urls |-> <<>>] /\ dl_limit = NoInt /\ dl_urls = <<>>
    /\ dl_pos = 0 /\ dl_seen = {} /\ dl_url = None /\ dl_successes = 0
    /\ dl_failures = <<>> /\ dl_calls = <<>> /\ dl_stdout = <<>> /\ dl_stderr = <<>>

-----------------------------------------------------------------------------
(* convert_bins_to_png.py: decode_entry, convert_file                      *)

Upper == <<"A", "B", "C", "D", "E", "F", "G", "H", "I", "J", "K", "L", "M",
           "N", "O", "P", "Q", "R", "S", "T", "U", "V", "W", "X", "Y", "Z">>
Lowers == <<"a", "b", "c", "d", "e", "f", "g", "h", "i", "j", "k", "l", "m",
            "n", "o", "p", "q", "r", "s", "t", "u", "v", "w", "x", "y", "z">>

\* str.lower() on one character
LowerChar(c) ==
    IF \E i \in 1..26 : Upper[i] = c
    THEN Lowers[CHOOSE i \in 1..26 : Upper[i] = c]
    ELSE c

\* s.lower()
Lower(s) == [i \in 1..Len(s) |-> LowerChar(s[i])]

\* s.endswith(suffix)
EndsWith(s, suffix) ==
    /\ Len(s) >= Len(suffix)
    /\ SubSeq(s, Len(s) - Len(suffix) + 1, Len(s)) = suffix

RECURSIVE SplitOn(_, _)
\* s.split(sep) for a one-character separator
SplitOn(s, sep) ==
    IF \A i \in 1..Len(s) : s[i] # sep THEN <<s>>
    ELSE LET k == CHOOSE i \in 1..Len(s) :
                      s[i] = sep /\ \A j \in 1..(i - 1) : s[j] # sep
         IN  <<SubSeq(s, 1, k - 1)>> \o SplitOn(SubSeq(s, k + 1, Len(s)), sep)

RECURSIVE KeepComponents(_)
\* pathlib drops the empty and the '.' components of a path string
KeepComponents(comps) ==
    IF comps = <<>> THEN <<>>
    ELSE (IF Head(comps) \in {<<>>, <<".">>} THEN <<>> ELSE <<Head(comps)>>)
         \o KeepComponents(Tail(comps))

\* Path(s) on POSIX: whether it is rooted, and its components
PosixPath(s) ==
    [root  |-> s # <<>> /\ s[1] = "/",
     parts |-> KeepComponents(SplitOn(s, "/"))]

\* Path(name) without the "avoid nested paths" step: the name as given
PathNameWhole(s) == s

\* Path(s).name: the last component, '' when there is none
PathName(s) ==
    LET p == PosixPath(s).parts
    IN  IF p = <<>> THEN <<>> ELSE p[Len(p)]

\* dir / filename: a rooted right operand replaces the left one
JoinPath(dir, filename) ==
    LET f == PosixPath(filename)
    IN  IF f.root THEN f ELSE [root |-> dir.root, parts |-> dir.parts \o f.parts]

RECURSIVE CollapseDotDot(_, _)
\* the components with every '..' applied to what precedes it
CollapseDotDot(done, rest) ==
    IF rest = <<>> THEN done
    ELSE IF Head(rest) = <<".", ".">>
         THEN CollapseDotDot(SubSeq(done, 1, Len(done) - 1), Tail(rest))
         ELSE CollapseDotDot(Append(done, Head(rest)), Tail(rest))

\* the working directory a relative path is resolved against
cwd == <<<<"w", "o", "r", "k">>>>

\* the absolute location a path denotes (no symbolic links)
Resolve(path) ==
    CollapseDotDot(<<>>, (IF path.root THEN <<>> ELSE cwd) \o path.parts)

dotPng == <<".", "p", "n", "g">>
imagePng == <<"i", "m", "a", "g", "e">> \o dotPng

\* --output-dir, default 'images'
output_dir == PosixPath(<<"i", "m", "a", "g", "e", "s">>)

\* the pieces the "name" strings of the entries are made of
NameUnits ==
    { <<"/">>, <<".">>, <<".", ".", "/">>,
      dotPng, <<".", "P", "N", "G">>, <<"x", ".", "p", "n", "g">> }

RECURSIVE ConcatUpTo(_, _)
\* the strings made of at most n units
ConcatUpTo(units, n) ==
    IF n = 0 THEN {<<>>}
    ELSE LET shorter == ConcatUpTo(units, n - 1)
         IN  shorter \cup {a \o u : a \in shorter, u \in units}

\* entry.get("name"): absent, JSON null, a number, or a string
NameFields ==
    {[t |-> "missing", s |-> <<>>, n |-> 0], [t |-> "null", s |-> <<>>, n |-> 0],
     [t |-> "num", s |-> <<>>, n |-> 0], [t |-> "num", s |-> <<>>, n |-> 5]}
    \cup {[t |-> "str", s |-> x, n |-> 0] : x \in ConcatUpTo(NameUnits, MaxNameParts)}

\* the elements of the JSON array: objects with a "name" and a "data" that
\* is valid base64 or not, and elements that are no objects
Entries ==
    {[dict |-> TRUE, name |-> nf, b64ok |-> b] : nf \in NameFields, b \in BOOLEAN}
    \cup {[dict |-> FALSE, name |-> [t |-> "missing", s |-> <<>>, n |-> 0],
           b64ok |-> FALSE]}

\* entry.get("name") is falsy: absent, None, 0 or ''
NameIsFalsy(nf) ==
    \/ nf.t \in {"missing", "null"}
    \/ nf.t = "num" /\ nf.n = 0
    \/ nf.t = "str" /\ nf.s = <<>>

\* decode_entry(entry): the exception raised ("none" when it returns) and
\* the filename returned
decode_entry(entry) ==
    LET nf == entry.name
    IN  IF ~NameIsFalsy(nf) /\ nf.t # "str"
        THEN [exc |-> "TypeError", name |-> <<>>]
        ELSE LET name0 == IF NameIsFalsy(nf) THEN imagePng ELSE nf.s
                 name1 == PathName(name0)
                 name2 == IF ~EndsWith(Lower(name1), dotPng)
                          THEN name1 \o dotPng ELSE name1
             IN  IF entry.b64ok
                 THEN [exc |-> "none", name |-> name2]
                 ELSE [exc |-> "ValueError", name |-> name2]

\* before the first turn of the loop
NoTurn == [exc |-> "unset", name |-> <<>>, wrote |-> FALSE, path |-> output_dir]

\* a line printed by convert_bins_to_png: its text and the number
\* formatted into it (0 when it has none)
CvLine(text, n) == [text |-> text, n |-> n]

CvInit ==
    /\ cv_pc = "loop"
    /\ cv_idx = 0
    /\ cv_turn = NoTurn
    /\ cv_outputs = 0
    /\ cv_stdout = <<>>

\* convert_file, one turn of the loop over an element that is no object
SkipNonDict ==
    /\ cv_pc = "loop" /\ cv_idx < MaxEntries
    /\ \E entry \in Entries :
        /\ ~entry.dict
        /\ cv_idx' = cv_idx + 1
        /\ cv_turn' = NoTurn
        /\ UNCHANGED <<cv_pc, cv_outputs, cv_stdout>>
    /\ UNCHANGED notCv

\* convert_file, one turn of the loop over an object: decode_entry, then
\* the write of output_dir / filename, or the handling of its exception
ConvertEntry ==
    /\ cv_pc = "loop" /\ cv_idx < MaxEntries
    /\ \E entry \in Entries :
        /\ entry.dict
        /\ LET r == decode_entry(entry)
           IN  /\ cv_idx' = cv_idx + 1
               /\ CASE r.exc = "none" ->
                         /\ cv_turn' = [exc |-> r.exc, name |-> r.name, wrote |-> TRUE,
                                        path |-> JoinPath(output_dir, r.name)]
                         /\ cv_outputs' = cv_outputs + 1
                         /\ UNCHANGED <<cv_pc, cv_stdout>>
                    [] r.exc = "ValueError" ->
                         /\ cv_turn' = [exc |-> r.exc, name |-> r.name, wrote |-> FALSE,
                                        path |-> output_dir]
                         /\ cv_stdout' = Append(cv_stdout, CvLine("Failed to decode base64 for {}: {}", 0))
                         /\ UNCHANGED <<cv_pc, cv_outputs>>
                    [] OTHER ->
                         \* not a ValueError: it leaves convert_file, and main
                         \* prints "Failed to convert"
                         /\ cv_turn' = [exc |-> r.exc, name |-> r.name, wrote |-> FALSE,
                                        path |-> output_dir]
                         /\ cv_pc' = "failed"
                         /\ cv_stdout' = Append(cv_stdout, CvLine("Failed to convert {}: {}", 0))
                         /\ UNCHANGED cv_outputs
    /\ UNCHANGED notCv

\* the array is exhausted: convert_file returns output_paths and main
\* prints their number
ConvertFileReturns ==
    /\ cv_pc = "loop"
    /\ cv_pc' = "returned"
    /\ cv_stdout' = Append(cv_stdout, CvLine("{} -> {} file(s)", cv_outputs))
    /\ UNCHANGED <<cv_idx, cv_turn, cv_outputs, notCv>>

\* total_written once main's loop over the .bin file has ended: the
\* number of files of a convert_file that returned, 0 when it raised
total_written == IF cv_pc = "returned" THEN cv_outputs ELSE 0

\* main's closing line, after the file was converted or failed
PrintDone ==
    /\ cv_pc \in {"returned", "failed"}
    /\ cv_pc' = "done"
    /\ cv_stdout' = Append(cv_stdout, CvLine("Done. Wrote {} file(s) to {}", total_written))
    /\ UNCHANGED <<cv_idx, cv_turn, cv_outputs, notCv>>

CvIdle ==
    /\ cv_pc = "idle" /\ cv_idx = 0 /\ cv_turn = NoTurn
    /\ cv_outputs = 0 /\ cv_stdout = <<>>

-----------------------------------------------------------------------------
(* get_features.py: adjust_matched_filter, with the urllib.parse functions *)
(* it calls (urlsplit, parse_qsl, urlencode, urlunsplit)                   *)

\* the printable ASCII characters, code 32 first (the grave accent, code
\* 96, cannot be written in a string here and is named instead)
Ascii ==
    <<" ", "!", "\"", "#", "$", "%", "&", "'", "(", ")", "*", "+", ",", "-",
    ".", "/", "0", "1", "2", "3", "4", "5", "6", "7", "8", "9", ":", ";",
    "<", "=", ">", "?", "@", "A", "B", "C", "D", "E", "F", "G", "H", "I",
    "J", "K", "L", "M", "N", "O", "P", "Q", "R", "S", "T", "U", "V", "W",
    "X", "Y", "Z", "[", "\\", "]", "^", "_", "GRAVE", "a", "b", "c", "d", "e",
    "f", "g", "h", "i", "j", "k", "l", "m", "n", "o", "p", "q", "r", "s",
    "t", "u", "v", "w", "x", "y", "z", "{", "|", "}", "~">>

Digits == {"0", "1", "2", "3", "4", "5", "6", "7", "8", "9"}
Letters == {Upper[i] : i \in 1..26} \cup {Lowers[i] : i \in 1..26}
HexDigits == <<"0", "1", "2", "3", "4", "5", "6", "7", "8", "9",
               "A", "B", "C", "D", "E", "F">>

\* whether c is a hexadecimal digit, of either case
IsHex(c) ==
    c \in Digits \cup {"A", "B", "C", "D", "E", "F", "a", "b", "c", "d", "e", "f"}

\* the value of a hexadecimal digit
HexVal(c) ==
    LET u == IF c \in {"a", "b", "c", "d", "e", "f"}
             THEN Upper[CHOOSE i \in 1..26 : Lowers[i] = c] ELSE c
    IN  (CHOOSE i \in 1..16 : HexDigits[i] = u) - 1

\* chr(code) and ord(c) within printable ASCII; the URLs of the model hold
\* no escape of another character
Chr(code) == Ascii[code - 31]
Ord(c) == (CHOOSE i \in 1..Len(Ascii) : Ascii[i] = c) + 31

\* s.replace(old, new) for a one-character old
ReplaceChar(s, old, new) == [i \in 1..Len(s) |-> IF s[i] = old THEN new ELSE s[i]]

RECURSIVE RemoveChars(_, _)
\* s with every character of chars removed
RemoveChars(s, chars) ==
    IF s = <<>> THEN <<>>
    ELSE (IF Head(s) \in chars THEN <<>> ELSE <<Head(s)>>)
         \o RemoveChars(Tail(s), chars)

RECURSIVE FindAny(_, _, _)
\* the least position from start on at which s holds a character of chars,
\* Len(s) + 1 when there is none
FindAny(s, chars, start) ==
    IF start > Len(s) THEN Len(s) + 1
    ELSE IF s[start] \in chars THEN start
    ELSE FindAny(s, chars, start + 1)

\* s.split(sep, 1): what precedes the first sep, and what follows it
Before(s, sep) == SubSeq(s, 1, FindAny(s, {sep}, 1) - 1)
After(s, sep) == SubSeq(s, FindAny(s, {sep}, 1) + 1, Len(s))

RECURSIVE Unquote(_)
\* urllib.parse.unquote: %XX becomes the character of code XX, a % that
\* two hexadecimal digits do not follow stays
Unquote(s) ==
    IF s = <<>> THEN <<>>
    ELSE IF s[1] = "%" /\ Len(s) >= 3 /\ IsHex(s[2]) /\ IsHex(s[3])
         THEN <<Chr(16 * HexVal(s[2]) + HexVal(s[3]))>>
              \o Unquote(SubSeq(s, 4, Len(s)))
         ELSE <<s[1]>> \o Unquote(Tail(s))

RECURSIVE QuotePlus(_)
\* urllib.parse.quote_plus(s): letters, digits and _.-~ stay, a space
\* becomes +, any other character becomes %XX
QuotePlus(s) ==
    IF s = <<>> THEN <<>>
    ELSE (IF s[1] \in Letters \cup Digits \cup {"_", ".", "-", "~"} THEN <<s[1]>>
          ELSE IF s[1] = " " THEN <<"+">>
          ELSE <<"%", HexDigits[(Ord(s[1]) \div 16) + 1],
                 HexDigits[(Ord(s[1]) % 16) + 1]>>)
         \o QuotePlus(Tail(s))

RECURSIVE ParseFields(_)
\* parse_qsl over the fields qs.split('&'), keep_blank_values=True: an
\* empty field is skipped, a field without = has the value ''
ParseFields(fields) ==
    IF fields = <<>> THEN <<>>
    ELSE LET nv == Head(fields)
         IN  (IF nv = <<>> THEN <<>>
              ELSE <<[k |-> Unquote(ReplaceChar(Before(nv, "="), "+", " ")),
                      v |-> Unquote(ReplaceChar(After(nv, "="), "+", " "))]>>)
             \o ParseFields(Tail(fields))

\* urllib.parse.parse_qsl(qs, keep_blank_values=True)
parse_qsl(qs) == IF qs = <<>> THEN <<>> ELSE ParseFields(SplitOn(qs, "&"))

RECURSIVE JoinWith(_, _)
\* sep.join(parts)
JoinWith(parts, sep) ==
    IF parts = <<>> THEN <<>>
    ELSE IF Len(parts) = 1 THEN parts[1]
    ELSE parts[1] \o sep \o JoinWith(Tail(parts), sep)

\* urllib.parse.urlencode(query_items, doseq=True) for string values
urlencode(items) ==
    JoinWith([i \in 1..Len(items) |->
                 QuotePlus(items[i].k) \o <<"=">> \o QuotePlus(items[i].v)],
             <<"&">>)

\* urllib.parse.scheme_chars
scheme_chars == Letters \cup Digits \cup {"+", "-", "."}

\* the schemes of urllib.parse.uses_netloc that the URLs of the model use
uses_netloc == {<<"h", "t", "t", "p">>, <<"h", "t", "t", "p", "s">>}

\* urllib.parse.urlsplit(url): err is set when it raises ValueError
\* ("Invalid IPv6 URL")
urlsplit(url0) ==
    LET url1 == RemoveChars(url0, {"\t", "\n"})
        i == FindAny(url1, {":"}, 1)
        hasScheme == /\ i <= Len(url1) /\ i > 1
                     /\ url1[1] \in Letters
                     /\ \A j \in 1..(i - 1) : url1[j] \in scheme_chars
        scheme == IF hasScheme THEN Lower(SubSeq(url1, 1, i - 1)) ELSE <<>>
        url2 == IF hasScheme THEN SubSeq(url1, i + 1, Len(url1)) ELSE url1
        hasNetloc == Len(url2) >= 2 /\ url2[1] = "/" /\ url2[2] = "/"
        delim == FindAny(url2, {"/", "?", "#"}, 3)
        netloc == IF hasNetloc THEN SubSeq(url2, 3, delim - 1) ELSE <<>>
        url3 == IF hasNetloc THEN SubSeq(url2, delim, Len(url2)) ELSE url2
        open == \E j \in 1..Len(netloc) : netloc[j] = "["
        close == \E j \in 1..Len(netloc) : netloc[j] = "]"
        fragment == After(url3, "#")
        url4 == Before(url3, "#")
    IN  [err |-> open # close, scheme |-> scheme, netloc |-> netloc,
         path |-> Before(url4, "?"), query |-> After(url4, "?"),
         fragment |-> fragment]

\* urllib.parse.urlunsplit((scheme, netloc, path, query, fragment))
urlunsplit(scheme, netloc, path, query, fragment) ==
    LET url1 == IF \/ netloc # <<>>
                   \/ /\ scheme # <<>> /\ scheme \in uses_netloc
                      /\ SubSeq(path, 1, 2) # <<"/", "/">>
                THEN <<"/", "/">> \o netloc
                     \o (IF path # <<>> /\ path[1] # "/"
                         THEN <<"/">> ELSE <<>>)
                     \o path
                ELSE path
        url2 == IF scheme # <<>> THEN scheme \o <<":">> \o url1 ELSE url1
        url3 == IF query # <<>> THEN url2 \o <<"?">> \o query ELSE url2
    IN  IF fragment # <<>> THEN url3 \o <<"#">> \o fragment ELSE url3

\* the query key 'filters[0]'
filters0 == <<"f", "i", "l", "t", "e", "r", "s", "[", "0", "]">>

\* f"matched IN ('{matched_choice}')"
MatchedIn(matched_choice) ==
    <<"m", "a", "t", "c", "h", "e", "d", " ", "I", "N", " ", "(", "'">>
    \o matched_choice \o <<"'", ")">>

\* the filter step left out: every item is kept
KeepAll(items) == items

RECURSIVE DropFilters0(_)
\* [(k, v) for k, v in query_items if k != "filters[0]"]
DropFilters0(items) ==
    IF items = <<>> THEN <<>>
    ELSE (IF Head(items).k # filters0 THEN <<Head(items)>> ELSE <<>>)
         \o DropFilters0(Tail(items))

\* --matched / GFW_MATCHED: None is <<>>, the string s is <<s>>
NoChoice == <<>>
any == <<"a", "n", "y">>

\* adjust_matched_filter(url, matched_choice): exc is "ValueError" when
\* urlsplit raises, and url is the URL returned otherwise
adjust_matched_filter(url, matched_choice) ==
    IF matched_choice = NoChoice THEN [exc |-> "none", url |-> url]
    ELSE LET parsed == urlsplit(url)
             kept == DropFilters0(parse_qsl(parsed.query))
             query_items ==
                 IF matched_choice[1] # any
                 THEN Append(kept, [k |-> filters0, v |-> MatchedIn(matched_choice[1])])
                 ELSE kept
         IN  IF parsed.err THEN [exc |-> "ValueError", url |-> <<>>]
             ELSE [exc |-> "none",
                   url |-> urlunsplit(parsed.scheme, parsed.netloc, parsed.path,
                                      urlencode(query_items), parsed.fragment)]

\* scheme, host and path of the tile URLs
UrlBases ==
    { <<"h", "t", "t", "p", "s", ":", "/", "/", "h", "/", "t">>,
      <<"H", "T", "T", "P", "S", ":", "/", "/", "h">>,
      <<"h", "t", "t", "p", ":", "/", "/", "[", "h", "/", "t">> }

\* the fields the query strings are made of
QuerySegments ==
    { <<"b">>,
      <<"f", "i", "l", "t", "e", "r", "s", "[", "0", "]", "=", "x">>,
      <<"f", "i", "l", "t", "e", "r", "s", "%", "5", "b", "0", "%", "5", "D", "=", "m", "%", "2", "0", "%", "2", "8", "%", "2", "7">>,
      <<>>,
      <<"c", "=", "d", "+", "e", "%", "2", "C", "%", "z", "z">>,
      <<"f", "i", "l", "t", "e", "r", "s", "[", "1", "]", "=", "y">> }

\* the fragments: none, or #f
UrlFragments == {<<>>, <<"#", "f">>}

\* the query strings, without the ?
Queries ==
    {JoinWith(q, <<"&">>) : q \in SeqsUpTo(QuerySegments, MaxParams)}

\* the values of --url
TileUrls ==
    {b \o q \o f : b \in UrlBases, f \in UrlFragments,
                   q \in {<<>>} \cup {<<"?">> \o x : x \in Queries}}

\* the values of --matched: absent, 'any', 'true', and one that only
\* the GFW_MATCHED default can give (argparse does not check a default
\* against choices)
MatchedChoices ==
    {NoChoice, <<any>>, <<<<"t", "r", "u", "e">>>>, <<<<"a", "&", "'">>>>}

NoResult == [exc |-> "unset", url |-> <<>>]

AmInit ==
    /\ am_url \in TileUrls
    /\ am_choice \in MatchedChoices
    /\ am_pc = "start"
    /\ am_once = NoResult
    /\ am_twice = NoResult

\* adjust_matched_filter(url, choice) is called
AdjustOnce ==
    /\ am_pc = "start"
    /\ am_once' = adjust_matched_filter(am_url, am_choice)
    /\ am_pc' = "once"
    /\ UNCHANGED <<am_url, am_choice, am_twice, notAm>>

\* adjust_matched_filter is called again, on the URL it returned
AdjustTwice ==
    /\ am_pc = "once"
    /\ am_once.exc = "none"
    /\ am_twice' = adjust_matched_filter(am_once.url, am_choice)
    /\ am_pc' = "twice"
    /\ UNCHANGED <<am_url, am_choice, am_once, notAm>>

AmIdle ==
    /\ am_pc = "idle" /\ am_url = <<>> /\ am_choice = NoChoice
    /\ am_once = NoResult /\ am_twice = NoResult

-----------------------------------------------------------------------------
(* The Mapbox Vector Tile decoder behind get_features.decode_tile, which   *)
(* hands the bytes to mapbox_vector_tile.decode: WireReader, ValueDecoder, *)
(* GeometryAssembler, LayerDecoder and TileDecoder as the design states    *)
(* them. A buffer is a sequence of bytes 0..255; offsets count from 0; a   *)
(* reader works on buf[pos..lim-1]. A failed read is                       *)
(* [ok |-> FALSE, kind, offset].                                           *)

Fail(kind, offset) == [ok |-> FALSE, kind |-> kind, offset |-> offset]

RECURSIVE VarintFrom(_, _, _, _, _)
\* read_varint from pos on, after count bytes were read since start: 7 bits
\* a byte, least significant first; at most 10 bytes
VarintFrom(buf, start, pos, lim, count) ==
    IF pos >= lim THEN Fail("TruncatedInput", start)
    ELSE LET b == buf[pos + 1]
         IN  IF b < 128 THEN [ok |-> TRUE, val |-> b, pos |-> pos + 1]
             ELSE IF count + 1 >= MaxVarintBytes THEN Fail("VarintOverflow", start)
             ELSE LET r == VarintFrom(buf, start, pos + 1, lim, count + 1)
                  IN  IF r.ok
                      THEN [ok |-> TRUE, val |-> (b % 128) + 128 * r.val, pos |-> r.pos]
                      ELSE r

\* WireReader.read_varint
read_varint(buf, pos, lim) == VarintFrom(buf, pos, pos, lim, 0)

\* zigzag decode: (n >> 1) XOR (-(n & 1))
ZigZag(n) == IF n % 2 = 0 THEN n \div 2 ELSE -((n + 1) \div 2)

\* the wire types a tag may carry: Varint, Fixed64, LengthDelimited, Fixed32
WireTypes == {0, 1, 2, 5}

\* a failed read is the result; a successful one is handed on
OnOk(r, Then(_)) == IF r.ok THEN Then(r) ELSE r

\* a failure is of the kind, at the offset
OrFail(r, kind, offset) == IF r.ok THEN r ELSE Fail(kind, offset)

\* WireReader.read_tag: field_number = v >> 3, wire_type = v & 0x7
read_tag(buf, pos, lim) ==
    OnOk(read_varint(buf, pos, lim), LAMBDA r :
        IF (r.val % 8) \notin WireTypes THEN Fail("UnknownWireType", pos)
        ELSE [ok |-> TRUE, field |-> r.val \div 8, wire |-> r.val % 8, pos |-> r.pos])

\* WireReader.read_length_delimited: the sub-view [from, to) that follows
\* the length; TruncatedInput at the offset where the length was read
read_length_delimited(buf, pos, lim) ==
    OnOk(read_varint(buf, pos, lim), LAMBDA r :
        IF r.pos + r.val > lim THEN Fail("TruncatedInput", pos)
        ELSE [ok |-> TRUE, from |-> r.pos, to |-> r.pos + r.val, pos |-> r.pos + r.val])

\* WireReader.skip_field: past the payload of a field of the wire type
skip_field(buf, pos, lim, wire) ==
    CASE wire = 0 ->
            OnOk(read_varint(buf, pos, lim), LAMBDA r : [ok |-> TRUE, pos |-> r.pos])
      [] wire = 2 ->
            OnOk(read_length_delimited(buf, pos, lim), LAMBDA r :
                [ok |-> TRUE, pos |-> r.pos])
      [] wire = 1 ->
            IF pos + 8 > lim THEN Fail("TruncatedInput", pos)
            ELSE [ok |-> TRUE, pos |-> pos + 8]
      [] OTHER ->
            IF pos + 4 > lim THEN Fail("TruncatedInput", pos)
            ELSE [ok |-> TRUE, pos |-> pos + 4]

\* the bytes of the sub-view [from, to)
Slice(buf, from, to) == SubSeq(buf, from + 1, to)

\* length-delimited bytes as text: MalformedString unless valid (the
\* buffers of the model hold ASCII text only)
ReadText(buf, from, to) ==
    IF \E i \in (from + 1)..to : buf[i] >= 128 THEN Fail("MalformedString", from)
    ELSE [ok |-> TRUE, text |-> [i \in 1..(to - from) |-> Chr(buf[from + i])]]

RECURSIVE ReadPacked(_, _, _, _)
\* the varints packed in the sub-view [pos, lim), after those of acc
ReadPacked(buf, pos, lim, acc) ==
    IF pos >= lim THEN [ok |-> TRUE, vals |-> acc]
    ELSE OnOk(read_varint(buf, pos, lim), LAMBDA r :
             ReadPacked(buf, r.pos, lim, Append(acc, r.val)))

\* a typed scalar: t is its type, s its text (or the raw bytes of a float
\* or double), n its number (0 or 1 for a bool)
Scalar(t, s, n) == [t |-> t, s |-> s, n |-> n]
NullScalar == Scalar("null", <<>>, 0)

\* the scalar of a varint field of a Value: int64 (4), uint64 (5), sint64
\* (6, zigzag) or bool (7, nonzero is true)
VarintScalar(field, n) ==
    CASE field = 4 -> Scalar("int", <<>>, n)
      [] field = 5 -> Scalar("uint", <<>>, n)
      [] field = 6 -> Scalar("sint", <<>>, ZigZag(n))
      [] OTHER -> Scalar("bool", <<>>, IF n # 0 THEN 1 ELSE 0)

RECURSIVE ValueFields(_, _, _, _)
\* ValueDecoder: the fields of a Value in turn; the last recognized one
\* wins, an unrecognized one is skipped
ValueFields(buf, pos, lim, acc) ==
    IF pos >= lim THEN [ok |-> TRUE, val |-> acc]
    ELSE OnOk(read_tag(buf, pos, lim), LAMBDA t :
        CASE t.field = 1 /\ t.wire = 2 ->
                OnOk(read_length_delimited(buf, t.pos, lim), LAMBDA r :
                OnOk(ReadText(buf, r.from, r.to), LAMBDA x :
                    ValueFields(buf, r.pos, lim, Scalar("string", x.text, 0))))
          [] t.field = 2 /\ t.wire = 5 ->
                IF t.pos + 4 > lim THEN Fail("TruncatedInput", t.pos)
                ELSE ValueFields(buf, t.pos + 4, lim,
                         Scalar("float", Slice(buf, t.pos, t.pos + 4), 0))
          [] t.field = 3 /\ t.wire = 1 ->
                IF t.pos + 8 > lim THEN Fail("TruncatedInput", t.pos)
                ELSE ValueFields(buf, t.pos + 8, lim,
                         Scalar("double", Slice(buf, t.pos, t.pos + 8), 0))
          [] t.field \in {4, 5, 6, 7} /\ t.wire = 0 ->
                OnOk(read_varint(buf, t.pos, lim), LAMBDA r :
                    ValueFields(buf, r.pos, lim, VarintScalar(t.field, r.val)))
          [] OTHER ->
                OnOk(skip_field(buf, t.pos, lim, t.wire), LAMBDA r :
                    ValueFields(buf, r.pos, lim, acc)))

\* ValueDecoder on the sub-view [from, to)
DecodeValue(buf, from, to) == ValueFields(buf, from, to, NullScalar)

\* geometry command ids
MoveTo == 1
LineTo == 2
ClosePath == 7

RECURSIVE ReadCoords(_, _, _, _, _, _)
\* count coordinate pairs from stream[i] on, after those of pts: each pair
\* is two zigzag deltas added to the cursor (x, y); ok is FALSE when the
\* stream ends first
ReadCoords(stream, i, count, x, y, pts) ==
    IF count = 0 THEN [ok |-> TRUE, pts |-> pts, i |-> i, x |-> x, y |-> y]
    ELSE IF i + 1 > Len(stream) THEN [ok |-> FALSE]
    ELSE ReadCoords(stream, i + 2, count - 1,
                    x + ZigZag(stream[i]), y + ZigZag(stream[i + 1]),
                    Append(pts, [x |-> x + ZigZag(stream[i]),
                                 y |-> y + ZigZag(stream[i + 1])]))

\* a point that MoveTo reaches starts a part of its own
NewParts(pts) == [k \in 1..Len(pts) |-> [pts |-> <<pts[k]>>, closed |-> FALSE]]

\* LineTo appends its points to the current part, the last one
AppendToCurrent(parts, pts) ==
    IF parts = <<>> THEN <<[pts |-> pts, closed |-> FALSE]>>
    ELSE [parts EXCEPT ![Len(parts)].pts = @ \o pts]

RECURSIVE Commands(_, _, _, _, _, _)
\* the command stream from stream[i] on, with the cursor at (x, y) and the
\* parts read so far: c & 0x7 is the command id, c >> 3 its count
Commands(gtype, stream, i, x, y, parts) ==
    IF i > Len(stream) THEN [ok |-> TRUE, parts |-> parts]
    ELSE CASE stream[i] % 8 \in {MoveTo, LineTo} ->
                OnOk(ReadCoords(stream, i + 1, stream[i] \div 8, x, y, <<>>),
                     LAMBDA r :
                    Commands(gtype, stream, r.i, r.x, r.y,
                             IF stream[i] % 8 = MoveTo THEN parts \o NewParts(r.pts)
                             ELSE AppendToCurrent(parts, r.pts)))
           [] stream[i] % 8 = ClosePath ->
                IF stream[i] \div 8 # 1 \/ gtype # "Polygon" \/ parts = <<>>
                THEN [ok |-> FALSE]
                ELSE Commands(gtype, stream, i + 1, x, y,
                         [parts EXCEPT ![Len(parts)].closed = TRUE])
           [] OTHER -> [ok |-> FALSE]

RECURSIVE ShoelaceFrom(_, _)
\* the shoelace sum of a ring from its i-th point on, the last point
\* joined to the first: twice the signed area
ShoelaceFrom(ring, i) ==
    IF i > Len(ring) THEN 0
    ELSE LET p == ring[i]
             q == ring[IF i = Len(ring) THEN 1 ELSE i + 1]
         IN  (p.x * q.y - q.x * p.y) + ShoelaceFrom(ring, i + 1)

\* twice the signed area of a ring
SignedArea2(ring) == ShoelaceFrom(ring, 1)

\* ring classification with interior and exterior exchanged
IsExteriorFlipped(ring) == SignedArea2(ring) < 0

\* a ring of signed area > 0 is an exterior ring
IsExterior(ring) == SignedArea2(ring) > 0

RECURSIVE GroupRings(_, _, _)
\* ring-to-polygon grouping: an exterior ring starts a polygon, an interior
\* ring joins the polygon started last; an interior ring before any
\* exterior one makes a polygon without exterior, with a warning
GroupRings(rings, polygons, warnings) ==
    IF rings = <<>> THEN [polygons |-> polygons, warnings |-> warnings]
    ELSE IF IsExterior(Head(rings))
    THEN GroupRings(Tail(rings),
             Append(polygons, [exterior |-> <<Head(rings)>>, holes |-> <<>>]),
             warnings)
    ELSE IF polygons = <<>>
    THEN GroupRings(Tail(rings),
             <<[exterior |-> <<>>, holes |-> <<Head(rings)>>]>>, warnings + 1)
    ELSE GroupRings(Tail(rings),
             [polygons EXCEPT ![Len(polygons)].holes = Append(@, Head(rings))],
             warnings)

RECURSIVE Flatten(_)
\* the concatenation of the sequences of a sequence
Flatten(seqs) == IF seqs = <<>> THEN <<>> ELSE Head(seqs) \o Flatten(Tail(seqs))

RECURSIVE ClosedRings(_)
\* the points of the parts that ClosePath closed
ClosedRings(parts) ==
    IF parts = <<>> THEN <<>>
    ELSE (IF Head(parts).closed THEN <<Head(parts).pts>> ELSE <<>>)
         \o ClosedRings(Tail(parts))

\* the geometry of the type from the parts read and the grouping of the
\* closed ones: points for Point, lines for LineString, polygons for
\* Polygon
GeometryOf(gtype, parts, grouped) ==
    [ok |-> TRUE, gtype |-> gtype,
     points |-> IF gtype = "Point"
                THEN Flatten([k \in 1..Len(parts) |-> parts[k].pts]) ELSE <<>>,
     lines |-> IF gtype = "LineString"
               THEN [k \in 1..Len(parts) |-> parts[k].pts] ELSE <<>>,
     polygons |-> IF gtype = "Polygon" THEN grouped.polygons ELSE <<>>,
     warnings |-> IF gtype = "Polygon" THEN grouped.warnings ELSE 0]

\* GeometryAssembler: the geometry of the type from the command stream, or
\* MalformedGeometry
GeometryAssembler(gtype, stream) ==
    OnOk(OrFail(Commands(gtype, stream, 1, 0, 0, <<>>), "MalformedGeometry", 0),
         LAMBDA r :
        GeometryOf(gtype, r.parts, GroupRings(ClosedRings(r.parts), <<>>, 0)))

\* the geometry_type enum of a Feature; an unrecognized number is Unknown
GeometryType(n) ==
    CASE n = 1 -> "Point"
      [] n = 2 -> "LineString"
      [] n = 3 -> "Polygon"
      [] OTHER -> "Unknown"

\* an optional id: <<>> is absent, <<n>> is n
NoId == <<>>
\* a feature as read, its tags not yet dereferenced
RawFeature == [id |-> NoId, tags |-> <<>>, type |-> 0, stream |-> <<>>]

RECURSIVE FeatureFields(_, _, _, _)
\* Feature decoding, the inner loop: id (1), tags (2), geometry_type (3)
\* and geometry (4) in turn; an unrecognized field is skipped
FeatureFields(buf, pos, lim, acc) ==
    IF pos >= lim THEN [ok |-> TRUE, raw |-> acc]
    ELSE OnOk(read_tag(buf, pos, lim), LAMBDA t :
        CASE t.field \in {1, 3} /\ t.wire = 0 ->
                OnOk(read_varint(buf, t.pos, lim), LAMBDA r :
                    FeatureFields(buf, r.pos, lim,
                        IF t.field = 1 THEN [acc EXCEPT !.id = <<r.val>>]
                        ELSE [acc EXCEPT !.type = r.val]))
          [] t.field \in {2, 4} /\ t.wire = 2 ->
                OnOk(read_length_delimited(buf, t.pos, lim), LAMBDA r :
                OnOk(ReadPacked(buf, r.from, r.to, <<>>), LAMBDA v :
                    FeatureFields(buf, r.pos, lim,
                        IF t.field = 2 THEN [acc EXCEPT !.tags = @ \o v.vals]
                        ELSE [acc EXCEPT !.stream = @ \o v.vals])))
          [] OTHER ->
                OnOk(skip_field(buf, t.pos, lim, t.wire), LAMBDA r :
                    FeatureFields(buf, r.pos, lim, acc)))

\* a Feature submessage [from, to): its fields, an even number of tags,
\* and its geometry assembled now that geometry_type is known
DecodeFeature(buf, from, to) ==
    OnOk(FeatureFields(buf, from, to, RawFeature), LAMBDA f :
        IF Len(f.raw.tags) % 2 # 0 THEN Fail("MalformedFeature", from)
        ELSE OnOk(OrFail(GeometryAssembler(GeometryType(f.raw.type), f.raw.stream),
                         "MalformedGeometry", from),
                  LAMBDA g :
                 [ok |-> TRUE,
                  feature |-> [id |-> f.raw.id, tags |-> f.raw.tags, geometry |-> g]]))

\* a layer as read: name is <<>> until the name field was seen
RawLayer ==
    [name |-> <<>>, version |-> 1, extent |-> 4096, keys |-> <<>>,
     values |-> <<>>, features |-> <<>>]

RECURSIVE LayerFields(_, _, _, _)
\* LayerDecoder: name (1), features (2), keys (3), values (4), extent (5)
\* and version (15) in whatever order the buffer has them
LayerFields(buf, pos, lim, acc) ==
    IF pos >= lim THEN [ok |-> TRUE, raw |-> acc]
    ELSE OnOk(read_tag(buf, pos, lim), LAMBDA t :
        CASE t.field \in {1, 3} /\ t.wire = 2 ->
                OnOk(read_length_delimited(buf, t.pos, lim), LAMBDA r :
                OnOk(ReadText(buf, r.from, r.to), LAMBDA x :
                    LayerFields(buf, r.pos, lim,
                        IF t.field = 1 THEN [acc EXCEPT !.name = <<x.text>>]
                        ELSE [acc EXCEPT !.keys = Append(@, x.text)])))
          [] t.field = 2 /\ t.wire = 2 ->
                OnOk(read_length_delimited(buf, t.pos, lim), LAMBDA r :
                OnOk(DecodeFeature(buf, r.from, r.to), LAMBDA f :
                    LayerFields(buf, r.pos, lim,
                        [acc EXCEPT !.features = Append(@, f.feature)])))
          [] t.field = 4 /\ t.wire = 2 ->
                OnOk(read_length_delimited(buf, t.pos, lim), LAMBDA r :
                OnOk(DecodeValue(buf, r.from, r.to), LAMBDA v :
                    LayerFields(buf, r.pos, lim,
                        [acc EXCEPT !.values = Append(@, v.val)])))
          [] t.field \in {5, 15} /\ t.wire = 0 ->
                OnOk(read_varint(buf, t.pos, lim), LAMBDA r :
                    LayerFields(buf, r.pos, lim,
                        IF t.field = 5 THEN [acc EXCEPT !.extent = r.val]
                        ELSE [acc EXCEPT !.version = r.val]))
          [] OTHER ->
                OnOk(skip_field(buf, t.pos, lim, t.wire), LAMBDA r :
                    LayerFields(buf, r.pos, lim, acc)))

\* a mapping with the key set to the value: a key already there keeps its
\* place and takes the value (last write wins), a new one goes last
SetItem(d, k, v) ==
    IF \E i \in 1..Len(d) : d[i].k = k
    THEN [i \in 1..Len(d) |-> IF d[i].k = k THEN [k |-> k, v |-> v] ELSE d[i]]
    ELSE Append(d, [k |-> k, v |-> v])

RECURSIVE Properties(_, _, _, _, _)
\* the properties of a feature: its tags from the i-th on, pairwise
\* (key_index, value_index), looked up in the layer's keys and values
Properties(tags, i, layer, from, acc) ==
    IF i > Len(tags) THEN [ok |-> TRUE, properties |-> acc]
    ELSE IF tags[i] >= Len(layer.keys) \/ tags[i + 1] >= Len(layer.values)
    THEN Fail("MalformedFeature", from)
    ELSE Properties(tags, i + 2, layer, from,
             SetItem(acc, layer.keys[tags[i] + 1], layer.values[tags[i + 1] + 1]))

RECURSIVE Dereference(_, _, _, _)
\* the features of a layer from the i-th on with their tags looked up,
\* once the whole layer has been read
Dereference(layer, i, from, acc) ==
    IF i > Len(layer.features) THEN [ok |-> TRUE, features |-> acc]
    ELSE OnOk(Properties(layer.features[i].tags, 1, layer, from, <<>>), LAMBDA p :
             Dereference(layer, i + 1, from,
                 Append(acc, [id |-> layer.features[i].id,
                              geometry_type |-> layer.features[i].geometry.gtype,
                              geometry |-> layer.features[i].geometry,
                              properties |-> p.properties])))

\* LayerDecoder on the Layer submessage [from, to)
LayerDecoder(buf, from, to) ==
    OnOk(LayerFields(buf, from, to, RawLayer), LAMBDA l :
        IF l.raw.name = <<>> THEN Fail("MalformedLayer", from)
        ELSE OnOk(Dereference(l.raw, 1, from, <<>>), LAMBDA d :
                 [ok |-> TRUE,
                  layer |-> [name |-> l.raw.name[1], version |-> l.raw.version,
                             extent |-> l.raw.extent, keys |-> l.raw.keys,
                             values |-> l.raw.values, features |-> d.features]]))

RECURSIVE TileFields(_, _, _, _)
\* TileDecoder: the fields of the outer buffer in turn; a Layer (3) is
\* decoded and appended, any other field is skipped
TileFields(buf, pos, lim, layers) ==
    IF pos >= lim THEN [ok |-> TRUE, layers |-> layers]
    ELSE OnOk(read_tag(buf, pos, lim), LAMBDA t :
        IF t.field = 3 /\ t.wire = 2
        THEN OnOk(read_length_delimited(buf, t.pos, lim), LAMBDA r :
             OnOk(LayerDecoder(buf, r.from, r.to), LAMBDA l :
                 TileFields(buf, r.pos, lim, Append(layers, l.layer))))
        ELSE OnOk(skip_field(buf, t.pos, lim, t.wire), LAMBDA r :
                 TileFields(buf, r.pos, lim, layers)))

\* TileDecoder: the Tile of a buffer, or the error with its kind and offset
TileDecoder(buf) == TileFields(buf, 0, Len(buf), <<>>)

\* a point
Pt(x, y) == [x |-> x, y |-> y]

\* the rings a producer draws from, each with twice the signed area that
\* the shoelace formula gives it
Rings ==
    { [pts |-> <<Pt(0, 0), Pt(10, 0), Pt(10, 10), Pt(0, 10)>>, area2 |-> 200],
      [pts |-> <<Pt(2, 2), Pt(2, 8), Pt(8, 8), Pt(8, 2)>>, area2 |-> -72],
      [pts |-> <<Pt(20, 0), Pt(24, 0), Pt(20, 3)>>, area2 |-> 12],
      [pts |-> <<Pt(0, 0), Pt(5, 0), Pt(9, 0), Pt(5, 0)>>, area2 |-> 0],
      [pts |-> <<Pt(-6, 4), Pt(-6, -4), Pt(-1, -4), Pt(-1, 4)>>, area2 |-> 80] }

\* zigzag encode
ZigZagEncode(v) == IF v >= 0 THEN 2 * v ELSE -2 * v - 1

\* a command integer
Command(id, count) == count * 8 + id

RECURSIVE EncodeRings(_, _, _, _)
\* the command stream of the rings with the cursor at (x, y): MoveTo(1),
\* LineTo(n - 1) and, when close is set, ClosePath(1) for each ring
EncodeRings(rings, x, y, close) ==
    IF rings = <<>> THEN <<>>
    ELSE LET pts == Head(rings)
             n == Len(pts)
             Delta(k) == <<ZigZagEncode(pts[k].x - (IF k = 1 THEN x ELSE pts[k - 1].x)),
                           ZigZagEncode(pts[k].y - (IF k = 1 THEN y ELSE pts[k - 1].y))>>
         IN  <<Command(MoveTo, 1)>> \o Delta(1)
             \o <<Command(LineTo, n - 1)>>
             \o Flatten([k \in 1..(n - 1) |-> Delta(k + 1)])
             \o (IF close THEN <<Command(ClosePath, 1)>> ELSE <<>>)
             \o EncodeRings(Tail(rings), pts[n].x, pts[n].y, close)

\* the points of the rings
RingPoints(rings) == [k \in 1..Len(rings) |-> rings[k].pts]

NoGeometry == [ok |-> FALSE, kind |-> "unset"]

GeInit ==
    /\ ge_rings \in SeqsUpTo(Rings, MaxRings)
    /\ ge_type \in {"Polygon", "LineString"}
    /\ ge_stream = EncodeRings(RingPoints(ge_rings), 0, 0, ge_type = "Polygon")
    /\ ge_pc = "encoded"
    /\ ge_result = NoGeometry

\* the feature's geometry is assembled from its command stream
AssembleGeometry ==
    /\ ge_pc = "encoded"
    /\ ge_pc' = "assembled"
    /\ ge_result' = GeometryAssembler(ge_type, ge_stream)
    /\ UNCHANGED <<ge_rings, ge_type, ge_stream, notGe>>

\* the same for a stream that a transfer cut short by one integer
AssembleOpenGeometry ==
    /\ ge_pc = "encoded"
    /\ ge_stream # <<>>
    /\ ge_pc' = "cut"
    /\ ge_stream' = SubSeq(ge_stream, 1, Len(ge_stream) - 1)
    /\ ge_result' = GeometryAssembler(ge_type, ge_stream')
    /\ UNCHANGED <<ge_rings, ge_type, notGe>>

GeIdle ==
    /\ ge_rings = <<>> /\ ge_type = "Polygon" /\ ge_stream = <<>>
    /\ ge_pc = "idle" /\ ge_result = NoGeometry

-----------------------------------------------------------------------------
(* get_features: decode_tile and the consumers of the tile it returns.     *)
(* A dict is a sequence of items [k, v] in insertion order, its keys       *)
(* distinct. A geometry is a tree of Python lists and numbers.             *)

PyList(items) == [t |-> "list", items |-> items, val |-> 0]
PyInt(n) == [t |-> "int", items |-> <<>>, val |-> n]
PyNone == [t |-> "None", items |-> <<>>, val |-> 0]

\* [x, y]
PyPoint(p) == PyList(<<PyInt(p.x), PyInt(p.y)>>)
\* a list of points
PyLine(pts) == PyList([k \in 1..Len(pts) |-> PyPoint(pts[k])])
\* the rings of a polygon, the exterior ring first
PyPolygon(polygon) ==
    LET rings == polygon.exterior \o polygon.holes
    IN  PyList([k \in 1..Len(rings) |-> PyLine(rings[k])])

\* the coordinates of a geometry as nested lists
PyGeometry(g) ==
    CASE g.gtype = "Point" -> PyLine(g.points)
      [] g.gtype = "LineString" ->
            PyList([k \in 1..Len(g.lines) |-> PyLine(g.lines[k])])
      [] g.gtype = "Polygon" ->
            PyList([k \in 1..Len(g.polygons) |-> PyPolygon(g.polygons[k])])
      [] OTHER -> PyList(<<>>)

\* the dict of a feature
PyFeature(f) ==
    [geometry |-> PyGeometry(f.geometry), properties |-> f.properties,
     id |-> f.id, type |-> f.geometry_type]

\* the dict of a layer
PyLayer(l) ==
    [extent |-> l.extent, version |-> l.version,
     features |-> [k \in 1..Len(l.features) |-> PyFeature(l.features[k])]]

RECURSIVE ToDict(_, _)
\* the Dict[str, Any] of the layers, keyed by layer name
ToDict(layers, d) ==
    IF layers = <<>> THEN d
    ELSE ToDict(Tail(layers), SetItem(d, Head(layers).name, PyLayer(Head(layers))))

\* what the decoder's result is in Python: the dict of the tile returned,
\* or the error raised
Returned(t) ==
    IF t.ok THEN [exc |-> "none", offset |-> 0, tile |-> ToDict(t.layers, <<>>)]
    ELSE [exc |-> t.kind, offset |-> t.offset, tile |-> <<>>]

\* decode_tile: the dict of the tile, or the decoder's error raised
decode_tile(tile_bytes) ==
    Returned(TileDecoder(tile_bytes))

\* a printed line: the function that printed it, the text of its format
\* string and the values formatted into it
Line(by, text, args) == [by |-> by, text |-> text, args |-> args]

\* bool(geometry)
Truthy(v) ==
    CASE v.t = "list" -> v.items # <<>>
      [] v.t = "int" -> v.val # 0
      [] OTHER -> FALSE

\* the lines of summarize_layers for the features of one layer
SummaryOfLayer(layer_name, features, max_features) ==
    LET shown == PySliceTo(features, max_features)
        first_geom(geometry) ==
            IF Truthy(geometry) /\ geometry.t = "list" THEN geometry.items[1]
            ELSE IF Truthy(geometry) THEN geometry
            ELSE PyNone
    IN  <<Line("summarize_layers", "\nLayer: {} | feature count: {}",
               <<layer_name, Len(features)>>)>>
        \o [idx \in 1..Len(shown) |->
               Line("summarize_layers",
                    "  Feature {}: type={} sample_geom={} properties={}",
                    <<idx, shown[idx].type, first_geom(shown[idx].geometry),
                      shown[idx].properties>>)]
        \o (IF Len(features) > max_features
            THEN <<Line("summarize_layers", "  ... {} more features omitted ...",
                        <<Len(features) - max_features>>)>>
            ELSE <<>>)

\* summarize_layers with its guard against an empty tile left out
summarize_layers_unguarded(tile, max_features) ==
    [out |-> Flatten([k \in 1..Len(tile) |->
                         SummaryOfLayer(tile[k].k, tile[k].v.features, max_features)]),
     tile |-> tile]

\* summarize_layers: the lines printed, and the tile as the call leaves it
summarize_layers(tile, max_features) ==
    IF tile = <<>>
    THEN [out |-> <<Line("summarize_layers", "No layers found in the tile.", <<>>)>>,
          tile |-> tile]
    ELSE [out |-> Flatten([k \in 1..Len(tile) |->
                             SummaryOfLayer(tile[k].k, tile[k].v.features, max_features)]),
          tile |-> tile]

RECURSIVE truncate_geometry_in_place(_, _)
\* truncate_geometry shortening the list it is given
truncate_geometry_in_place(geom, max_coords) ==
    IF geom.t # "list" THEN [ret |-> geom, arg |-> geom]
    ELSE LET trimmed == PySliceTo(geom.items, max_coords)
             rs == [k \in 1..Len(trimmed) |->
                       truncate_geometry_in_place(trimmed[k], max_coords)]
         IN  [ret |-> PyList([k \in 1..Len(trimmed) |-> rs[k].ret]),
              arg |-> PyList([k \in 1..Len(trimmed) |-> rs[k].arg])]

RECURSIVE truncate_geometry(_, _)
\* truncate_geometry: ret is the list returned, arg the list given as the
\* call leaves it. geom[:max_coords] and the comprehension make new lists
truncate_geometry(geom, max_coords) ==
    IF geom.t # "list" THEN [ret |-> geom, arg |-> geom]
    ELSE LET trimmed == PySliceTo(geom.items, max_coords)
             rs == [k \in 1..Len(trimmed) |->
                       truncate_geometry(trimmed[k], max_coords)]
         IN  [ret |-> PyList([k \in 1..Len(trimmed) |-> rs[k].ret]),
              arg |-> PyList([k \in 1..Len(geom.items) |->
                                 IF k <= Len(trimmed) THEN rs[k].arg
                                 ELSE geom.items[k]])]

\* print_geometries for one layer: its lines, and its features as the
\* calls of truncate_geometry leave them
GeometriesOfLayer(layer_name, features, max_features, max_coords) ==
    LET shown == PySliceTo(features, max_features)
        ts == [idx \in 1..Len(shown) |->
                  truncate_geometry(shown[idx].geometry, max_coords)]
    IN  IF features = <<>> THEN [out |-> <<>>, features |-> features]
        ELSE [out |->
                 <<Line("print_geometries", "\nLayer: {}", <<layer_name>>)>>
                 \o [idx \in 1..Len(shown) |->
                        Line("print_geometries", "  Feature {}: type={} geometry={}",
                             <<idx, shown[idx].type, ts[idx].ret>>)]
                 \o (IF Len(features) > max_features
                     THEN <<Line("print_geometries",
                                 "  ... {} more features omitted ...",
                                 <<Len(features) - max_features>>)>>
                     ELSE <<>>),
              features |->
                 [k \in 1..Len(features) |->
                     IF k <= Len(shown)
                     THEN [features[k] EXCEPT !.geometry = ts[k].arg]
                     ELSE features[k]]]

\* print_geometries: the lines printed, and the tile as the call leaves it
print_geometries(tile, max_features, max_coords) ==
    LET ls == [k \in 1..Len(tile) |->
                  GeometriesOfLayer(tile[k].k, tile[k].v.features,
                                    max_features, max_coords)]
    IN  IF tile = <<>>
        THEN [out |-> <<Line("print_geometries", "\nNo geometries to display.", <<>>)>>,
              tile |-> tile]
        ELSE [out |->
                 <<Line("print_geometries",
                        "\nGeometries (max_features={}, max_coords={}):",
                        <<max_features, max_coords>>)>>
                 \o Flatten([k \in 1..Len(tile) |-> ls[k].out]),
              tile |->
                 [k \in 1..Len(tile) |->
                     [tile[k] EXCEPT !.v.features = ls[k].features]]]

\* props.get(key): the value, or None
Get(props, key) ==
    IF \E i \in 1..Len(props) : props[i].k = key
    THEN (CHOOSE item \in {props[i] : i \in 1..Len(props)} : item.k = key).v
    ELSE Scalar("None", <<>>, 0)

bearing == <<"b", "e", "a", "r", "i", "n", "g">>
shipname == <<"s", "h", "i", "p", "n", "a", "m", "e">>
vessel_id == <<"v", "e", "s", "s", "e", "l", "_", "i", "d">>

\* print_selected_fields: the lines printed, and the tile as the call
\* leaves it
print_selected_fields(tile) ==
    LET FieldsOfLayer(layer_name, features) ==
            [k \in 1..Len(features) |->
                Line("print_selected_fields",
                     "{} | bearing={} | shipname={} | vessel_id={}",
                     <<layer_name, Get(features[k].properties, bearing),
                       Get(features[k].properties, shipname),
                       Get(features[k].properties, vessel_id)>>)]
    IN  IF tile = <<>>
        THEN [out |-> <<Line("print_selected_fields",
                             "\nNo data to list requested fields.", <<>>)>>,
              tile |-> tile]
        ELSE [out |->
                 <<Line("print_selected_fields",
                        "\nRequested fields (bearing, shipname, vessel_id):", <<>>)>>
                 \o Flatten([k \in 1..Len(tile) |->
                                FieldsOfLayer(tile[k].k, tile[k].v.features)]),
              tile |-> tile]

\* top-level fields of a tile buffer: a layer a with a point feature whose
\* tags precede the keys and values; a layer a with a polygon with a hole
\* (its key written twice) and a line, and a field of a later version; a
\* layer b without features; a field that is not a Layer; a Layer whose
\* declared length exceeds what follows; a layer without name; a layer d
\* with a feature of one tag
layer_a_point ==
    <<26, 28, 120, 2, 10, 1, 97, 18, 13, 8, 1, 18, 2, 0, 0, 24, 1, 34,
      3, 9, 10, 14, 26, 1, 107, 34, 3, 10, 1, 118>>
layer_a_polygon ==
    <<26, 68, 10, 1, 97, 26, 1, 107, 34, 3, 10, 1, 118, 34, 2, 40, 7,
      72, 1, 18, 34, 8, 0, 18, 4, 0, 0, 0, 1, 24, 3, 34, 22, 9, 0, 0,
      26, 20, 0, 0, 20, 19, 0, 15, 9, 4, 15, 26, 0, 12, 12, 0, 0, 11,
      15, 18, 10, 24, 2, 34, 6, 9, 2, 2, 10, 4, 6, 40, 128, 32>>
layer_b_empty ==
    <<26, 3, 10, 1, 98>>
unknown_field ==
    <<58, 2, 120, 120>>
layer_cut_short ==
    <<26, 5, 10, 1, 99>>
layer_unnamed ==
    <<26, 2, 40, 8>>
layer_odd_tags ==
    <<26, 15, 10, 1, 100, 18, 10, 18, 1, 0, 24, 1, 34, 3, 9, 0, 0>>
Chunks ==
    {layer_a_point, layer_a_polygon, layer_b_empty, unknown_field,
     layer_cut_short, layer_unnamed, layer_odd_tags}

\* the tile buffers a server answers with
Buffers == ConcatUpTo(Chunks, MaxChunks)

\* the tiles that decode_tile returns for them
Tiles == {d.tile : d \in {x \in {decode_tile(b) : b \in Buffers} : x.exc = "none"}}

\* the values given as max_features and max_coords
Args == -1..MaxArg

CsInit ==
    /\ cs_tile0 \in Tiles
    /\ cs_tile = cs_tile0
    /\ cs_fn = "none"
    /\ cs_out = <<>>

SummarizeLayers ==
    \E max_features \in Args :
        LET r == summarize_layers(cs_tile, max_features)
        IN  /\ cs_tile' = r.tile
            /\ cs_fn' = "summarize_layers"
            /\ cs_out' = r.out
            /\ UNCHANGED <<cs_tile0, notCs>>

PrintGeometries ==
    \E max_features \in Args, max_coords \in Args :
        LET r == print_geometries(cs_tile, max_features, max_coords)
        IN  /\ cs_tile' = r.tile
            /\ cs_fn' = "print_geometries"
            /\ cs_out' = r.out
            /\ UNCHANGED <<cs_tile0, notCs>>

\* truncate_geometry called on the geometry of a feature of the tile
TruncateGeometry ==
    \E k \in 1..Len(cs_tile), max_coords \in Args :
        \E i \in 1..Len(cs_tile[k].v.features) :
            LET r == truncate_geometry(cs_tile[k].v.features[i].geometry, max_coords)
            IN  /\ cs_tile' = [cs_tile EXCEPT ![k].v.features[i].geometry = r.arg]
                /\ cs_fn' = "truncate_geometry"
                /\ cs_out' = <<Line("truncate_geometry", "",
                                    <<cs_tile[k].v.features[i].geometry,
                                      max_coords, r.ret>>)>>
                /\ UNCHANGED <<cs_tile0, notCs>>

PrintSelectedFields ==
    LET r == print_selected_fields(cs_tile)
    IN  /\ cs_tile' = r.tile
        /\ cs_fn' = "print_selected_fields"
        /\ cs_out' = r.out
        /\ UNCHANGED <<cs_tile0, notCs>>

CsIdle ==
    /\ cs_tile0 = <<>> /\ cs_tile = <<>> /\ cs_fn = "idle" /\ cs_out = <<>>

-----------------------------------------------------------------------------
(* get_features.main and fetch_tile                                        *)

\* argparse defaults of --geometry-max-features and --geometry-max-coords
geometry_max_features == 5
geometry_max_coords == 10

\* the values of --max-features of the model: the default and 1
MaxFeaturesArgs == {1, 3}

\* the tile URLs of the model: one with a query, one that urlsplit rejects
MainUrls == {<<"h", "t", "t", "p", "s", ":", "/", "/", "h", "/", "t", "?", "b">>,
             <<"h", "t", "t", "p", ":", "/", "/", "[", "h", "/", "t">>}

\* the parsed arguments
MainArgs ==
    [url : MainUrls, matched : {NoChoice, <<any>>}, max_features : MaxFeaturesArgs,
     print_geometry : BOOLEAN, debug_http : BOOLEAN]

\* what requests.get does: it raises (no connection, timeout), or returns
\* a response with a status code and a body
Responses ==
    {[kind |-> "raises", status_code |-> 0, content |-> <<>>],
     [kind |-> "response", status_code |-> 404, content |-> <<>>]}
    \cup {[kind |-> "response", status_code |-> 200, content |-> b] : b \in Buffers}

\* no exception is being raised
NoExc == [type |-> "none", offset |-> 0]
\* decoded is not assigned yet
NoTile == [set |-> FALSE, tile |-> <<>>]
\* the process has not exited
Running == <<>>

MnInit ==
    /\ mn_args \in MainArgs
    /\ mn_response \in Responses
    /\ mn_pc = "adjust"
    /\ mn_url = <<>>
    /\ mn_raw = <<>>
    /\ mn_decoded = NoTile
    /\ mn_exc = NoExc
    /\ mn_stdout = <<>>
    /\ mn_stderr = <<>>
    /\ mn_exit = Running
    /\ mn_fetches = 0
    /\ mn_decodes = 0

\* url = adjust_matched_filter(args.url, args.matched), and the first line
\* printed; a ValueError of urlsplit goes to the except clauses
AdjustUrl ==
    /\ mn_pc = "adjust"
    /\ \E r \in {adjust_matched_filter(mn_args.url, mn_args.matched)} :
          IF r.exc = "none"
          THEN /\ mn_url' = r.url
               /\ mn_stdout' = Append(mn_stdout,
                                      Line("main", "Requesting tile...\n{}\n", <<r.url>>))
               /\ mn_pc' = "fetch"
               /\ UNCHANGED mn_exc
          ELSE /\ mn_exc' = [type |-> r.exc, offset |-> 0]
               /\ mn_pc' = "except"
               /\ UNCHANGED <<mn_url, mn_stdout>>
    /\ UNCHANGED <<mn_args, mn_response, mn_raw, mn_decoded, mn_stderr, mn_exit,
                   mn_fetches, mn_decodes, notMn>>

\* the line fetch_tile prints with --debug-http
DebugLines ==
    IF mn_args.debug_http
    THEN <<Line("fetch_tile", "HTTP {} {}, Headers: {}",
               <<mn_response.status_code, "reason", "headers">>)>>
    ELSE <<>>

\* fetch_tile: requests.get raises
FetchTileRaises ==
    /\ mn_pc = "fetch"
    /\ mn_response.kind = "raises"
    /\ mn_fetches' = mn_fetches + 1
    /\ mn_exc' = [type |-> "RequestException", offset |-> 0]
    /\ mn_pc' = "except"
    /\ UNCHANGED <<mn_args, mn_response, mn_url, mn_raw, mn_decoded, mn_stdout,
                   mn_stderr, mn_exit, mn_decodes, notMn>>

\* fetch_tile: raise_for_status raises HTTPError; the body goes to stderr
\* and the error is raised again
FetchTileHTTPError ==
    /\ mn_pc = "fetch"
    /\ mn_response.kind = "response"
    /\ mn_response.status_code >= 400
    /\ mn_fetches' = mn_fetches + 1
    /\ mn_stdout' = mn_stdout \o DebugLines
    /\ mn_stderr' = Append(mn_stderr,
                           Line("fetch_tile", "Response body: {}", <<mn_response.content>>))
    /\ mn_exc' = [type |-> "HTTPError", offset |-> 0]
    /\ mn_pc' = "except"
    /\ UNCHANGED <<mn_args, mn_response, mn_url, mn_raw, mn_decoded, mn_exit,
                   mn_decodes, notMn>>

\* fetch_tile returns response.content, and main prints its length
FetchTileReturns ==
    /\ mn_pc = "fetch"
    /\ mn_response.kind = "response"
    /\ mn_response.status_code < 400
    /\ mn_fetches' = mn_fetches + 1
    /\ mn_raw' = mn_response.content
    /\ mn_stdout' = mn_stdout \o DebugLines
                    \o <<Line("main", "Received {} bytes. Decoding...\n",
                              <<Len(mn_response.content)>>)>>
    /\ mn_pc' = "decode"
    /\ UNCHANGED <<mn_args, mn_response, mn_url, mn_decoded, mn_exc, mn_stderr,
                   mn_exit, mn_decodes, notMn>>

\* main going on to the summary whatever decode_tile did
AfterDecodeKeepGoing(d) ==
    [pc |-> "summarize", decoded |-> [set |-> TRUE, tile |-> d.tile], exc |-> NoExc]

\* decoded = decode_tile(raw_tile) inside the try block: the dict is
\* assigned, or the exception leaves the block
AfterDecode(d) ==
    IF d.exc = "none"
    THEN [pc |-> "summarize", decoded |-> [set |-> TRUE, tile |-> d.tile], exc |-> NoExc]
    ELSE [pc |-> "except", decoded |-> NoTile,
          exc |-> [type |-> d.exc, offset |-> d.offset]]

DecodeTile ==
    /\ mn_pc = "decode"
    /\ mn_decodes' = mn_decodes + 1
    /\ \E a \in {AfterDecode(decode_tile(mn_raw))} :
          /\ mn_pc' = a.pc
          /\ mn_decoded' = a.decoded
          /\ mn_exc' = a.exc
    /\ UNCHANGED <<mn_args, mn_response, mn_url, mn_raw, mn_stdout, mn_stderr,
                   mn_exit, mn_fetches, notMn>>

\* main returns: the process exits with status 0
Returns == <<0>>

\* summarize_layers(decoded, max_features=args.max_features)
MainSummarizeLayers ==
    /\ mn_pc = "summarize"
    /\ \E r \in {summarize_layers(mn_decoded.tile, mn_args.max_features)} :
          /\ mn_stdout' = mn_stdout \o r.out
          /\ mn_decoded' = [mn_decoded EXCEPT !.tile = r.tile]
    /\ mn_pc' = IF mn_args.print_geometry THEN "geometries" ELSE "exited"
    /\ mn_exit' = IF mn_args.print_geometry THEN mn_exit ELSE Returns
    /\ UNCHANGED <<mn_args, mn_response, mn_url, mn_raw, mn_exc, mn_stderr,
                   mn_fetches, mn_decodes, notMn>>

\* print_geometries(decoded, ...) when --print-geometry is set
MainPrintGeometries ==
    /\ mn_pc = "geometries"
    /\ \E r \in {print_geometries(mn_decoded.tile, geometry_max_features,
                                  geometry_max_coords)} :
          /\ mn_stdout' = mn_stdout \o r.out
          /\ mn_decoded' = [mn_decoded EXCEPT !.tile = r.tile]
    /\ mn_pc' = "exited"
    /\ mn_exit' = Returns
    /\ UNCHANGED <<mn_args, mn_response, mn_url, mn_raw, mn_exc, mn_stderr,
                   mn_fetches, mn_decodes, notMn>>

\* except requests.HTTPError: one line on stderr and sys.exit(1)
HandleHTTPError ==
    /\ mn_pc = "except"
    /\ mn_exc.type = "HTTPError"
    /\ mn_stderr' = Append(mn_stderr, Line("main", "HTTP error: {}", <<mn_exc>>))
    /\ mn_exit' = <<1>>
    /\ mn_pc' = "exited"
    /\ UNCHANGED <<mn_args, mn_response, mn_url, mn_raw, mn_decoded, mn_exc,
                   mn_stdout, mn_fetches, mn_decodes, notMn>>

\* except Exception: one line on stderr and sys.exit(1)
HandleException ==
    /\ mn_pc = "except"
    /\ mn_exc.type # "HTTPError"
    /\ mn_stderr' = Append(mn_stderr, Line("main", "Unexpected error: {}", <<mn_exc>>))
    /\ mn_exit' = <<1>>
    /\ mn_pc' = "exited"
    /\ UNCHANGED <<mn_args, mn_response, mn_url, mn_raw, mn_decoded, mn_exc,
                   mn_stdout, mn_fetches, mn_decodes, notMn>>

MnIdle ==
    /\ mn_args = <<>> /\ mn_response = <<>> /\ mn_pc = "idle" /\ mn_url = <<>>
    /\ mn_raw = <<>> /\ mn_decoded = NoTile /\ mn_exc = NoExc
    /\ mn_stdout = <<>> /\ mn_stderr = <<>> /\ mn_exit = Running
    /\ mn_fetches = 0 /\ mn_decodes = 0

-----------------------------------------------------------------------------
(* Specifications, one per script entry point.                             *)

InitSafeFilename ==
    SfInit /\ DlIdle /\ CvIdle /\ AmIdle /\ GeIdle /\ CsIdle /\ MnIdle
NextSafeFilename == SafeFilenameReturn
SpecSafeFilename == InitSafeFilename /\ [][NextSafeFilename]_vars

InitDownload ==
    DlInit /\ SfIdle /\ CvIdle /\ AmIdle /\ GeIdle /\ CsIdle /\ MnIdle
NextDownload ==
    \/ LoadUrlsFails
    \/ LoadUrls
    \/ IterateUrls
    \/ DownloadImage
    \/ PrintSummary
SpecDownload == InitDownload /\ [][NextDownload]_vars

InitConvert ==
    CvInit /\ SfIdle /\ DlIdle /\ AmIdle /\ GeIdle /\ CsIdle /\ MnIdle
NextConvert ==
    \/ SkipNonDict
    \/ ConvertEntry
    \/ ConvertFileReturns
    \/ PrintDone
SpecConvert == InitConvert /\ [][NextConvert]_vars

InitAdjust ==
    AmInit /\ SfIdle /\ DlIdle /\ CvIdle /\ GeIdle /\ CsIdle /\ MnIdle
NextAdjust ==
    \/ AdjustOnce
    \/ AdjustTwice
SpecAdjust == InitAdjust /\ [][NextAdjust]_vars

InitGeometry ==
    GeInit /\ SfIdle /\ DlIdle /\ CvIdle /\ AmIdle /\ CsIdle /\ MnIdle
NextGeometry ==
    \/ AssembleGeometry
    \/ AssembleOpenGeometry
SpecGeometry == InitGeometry /\ [][NextGeometry]_vars

InitConsumers ==
    CsInit /\ SfIdle /\ DlIdle /\ CvIdle /\ AmIdle /\ GeIdle /\ MnIdle
NextConsumers ==
    \/ SummarizeLayers
    \/ PrintGeometries
    \/ TruncateGeometry
    \/ PrintSelectedFields
SpecConsumers == InitConsumers /\ [][NextConsumers]_vars

InitMain ==
    MnInit /\ SfIdle /\ DlIdle /\ CvIdle /\ AmIdle /\ GeIdle /\ CsIdle
NextMain ==
    \/ AdjustUrl
    \/ FetchTileRaises
    \/ FetchTileHTTPError
    \/ FetchTileReturns
    \/ DecodeTile
    \/ MainSummarizeLayers
    \/ MainPrintGeometries
    \/ HandleHTTPError
    \/ HandleException
SpecMain == InitMain /\ [][NextMain]_vars

-----------------------------------------------------------------------------
(* C7: safe_filename                                                       *)

\* C7: safe_filename returns, for every input string, a non-empty name with
\* none of the characters < > : " / \ | ? * that does not end with a dot or
\* a space, and 'image' for an input that cleans to the empty string.
C7_SafeFilenameIsWindowsSafe ==
    sf_pc = "returned" =>
        /\ sf_result # <<>>
        /\ \A i \in 1..Len(sf_result) : sf_result[i] \notin forbidden
        /\ sf_result[Len(sf_result)] \notin {".", " "}

\* C7 failing input: 'a .' is returned as 'a ', which ends with a space
C7_FailingInput ==
    sf_pc = "returned" /\ sf_name = <<"a", " ", ".">> /\ sf_result = <<"a",
    " ">>

-----------------------------------------------------------------------------
(* C8: the download loop of get_images_raw.main                            *)

RECURSIVE Dedup(_, _)
\* the distinct elements of s in order of first occurrence
Dedup(s, seen) ==
    IF s = <<>> THEN <<>>
    ELSE IF Head(s) \in seen THEN Dedup(Tail(s), seen)
    ELSE <<Head(s)>> \o Dedup(Tail(s), seen \cup {Head(s)})

\* the first n entries of s (all of them when n is None)
FirstEntries(s, n) ==
    [i \in 1..(IF n = NoInt \/ n[1] > Len(s) THEN Len(s) ELSE n[1]) |-> s[i]]

RECURSIVE RaisedUrls(_)
\* the urls of the calls that raised, in call order
RaisedUrls(calls) ==
    IF calls = <<>> THEN <<>>
    ELSE (IF Head(calls).raised THEN <<Head(calls).url>> ELSE <<>>)
         \o RaisedUrls(Tail(calls))

\* C8: when the loop has ended, download_image was called exactly once for
\* each distinct URL among the first --limit entries, in order of first
\* occurrence, whatever calls failed; successes + len(failures) is the
\* number of distinct URLs and failures holds exactly the URLs that raised.
C8_EachDistinctUrlAttemptedOnce ==
    dl_pc \in {"summary", "done"} =>
        /\ [i \in 1..Len(dl_calls) |-> dl_calls[i].url]
             = Dedup(FirstEntries(dl_input.urls, dl_limit), {})
        /\ dl_successes + Len(dl_failures)
             = Cardinality({dl_input.urls[i] :
                               i \in 1..Len(FirstEntries(dl_input.urls, dl_limit))})
        /\ dl_failures = RaisedUrls(dl_calls)

\* C8 witness: a run over a list with a duplicate in which a download
\* failed and a later one succeeded
C8_Witness ==
    /\ dl_pc = "done"
    /\ Len(dl_urls) = 3 /\ dl_urls[1] = dl_urls[3] /\ dl_urls[1] # dl_urls[2]
    /\ Len(dl_calls) = 2 /\ dl_calls[1].raised /\ ~dl_calls[2].raised

-----------------------------------------------------------------------------
(* C9: convert_bins_to_png writes only direct children of output_dir       *)

\* C9: whatever the "name" field of an entry holds, the filename returned
\* by decode_entry has no directory component and ends with .png
\* (case-insensitively), and every file written, output_dir / filename, is
\* a direct child of output_dir.
C9_WritesOnlyInsideOutputDir ==
    /\ cv_turn.exc = "none" =>
          /\ \A i \in 1..Len(cv_turn.name) : cv_turn.name[i] # "/"
          /\ EndsWith(Lower(cv_turn.name), dotPng)
    /\ cv_turn.wrote =>
          LET r == Resolve(cv_turn.path)
              d == Resolve(output_dir)
          IN  /\ Len(r) = Len(d) + 1
              /\ SubSeq(r, 1, Len(d)) = d
              /\ r[Len(r)] \notin {<<>>, <<".">>, <<".", ".">>}

\* C9 witness: an entry named '../' was written, as images/...png
C9_Witness ==
    /\ cv_turn.wrote
    /\ cv_turn.name = <<".", ".">> \o dotPng
    /\ cv_turn.path.parts =
           <<<<"i", "m", "a", "g", "e", "s">>, <<".", ".">> \o dotPng>>
-----------------------------------------------------------------------------
(* C1, C2, C3: get_features.main on the answers of the server              *)

\* the lines of a stream that the function printed
LinesBy(lines, fns) == SelectSeq(lines, LAMBDA l : l.by \in fns)

\* the lines of a stream with the text
LinesWith(lines, text) == SelectSeq(lines, LAMBDA l : l.text = text)

\* the layer names of a sequence of layers
Names(layers) == [k \in 1..Len(layers) |-> layers[k].name]

\* the layer names that summarize_layers or print_geometries printed
Visited(text) ==
    LET ls == LinesWith(mn_stdout, text)
    IN  [k \in 1..Len(ls) |-> ls[k].args[1]]

\* C1 as stated: requests.get and decode_tile are called at most once; once
\* an error was raised while fetching or decoding, no line of
\* summarize_layers or print_geometries is printed, and when the process
\* has exited the error was reported once (stderr holds one line) and the
\* status is 1; lines of summarize_layers or print_geometries are printed
\* only of the complete tile that decode_tile returned for the bytes
\* received.
C1_ErrorReportedOnce ==
    LET summary == LinesBy(mn_stdout, {"summarize_layers", "print_geometries"})
    IN  /\ mn_fetches <= 1
        /\ mn_decodes <= 1
        /\ mn_exc # NoExc =>
              /\ summary = <<>>
              /\ mn_pc \in {"except", "exited"}
              /\ mn_pc = "exited" =>
                    /\ mn_exit = <<1>>
                    /\ Len(mn_stderr) = 1
        /\ summary # <<>> =>
              /\ mn_decodes = 1
              /\ TileDecoder(mn_raw).ok
              /\ mn_decoded = [set |-> TRUE, tile |-> decode_tile(mn_raw).tile]
        /\ mn_exc = NoExc /\ mn_pc = "exited" =>
              mn_exit = Returns /\ mn_stderr = <<>>

\* C1 amended: as C1, except for what is reported: when the process has
\* exited after an error, stderr holds the one line of main's except clause
\* ('HTTP error' for an HTTPError, 'Unexpected error' for any other
\* exception), preceded, for an HTTPError only, by the 'Response body' line
\* that fetch_tile prints before it raises the error again.
C1_ErrorAbortsTheRun ==
    LET summary == LinesBy(mn_stdout, {"summarize_layers", "print_geometries"})
    IN  /\ mn_fetches <= 1
        /\ mn_decodes <= 1
        /\ mn_exc # NoExc =>
              /\ summary = <<>>
              /\ mn_pc \in {"except", "exited"}
              /\ mn_pc = "exited" =>
                    /\ mn_exit = <<1>>
                    /\ mn_stderr =
                          IF mn_exc.type = "HTTPError"
                          THEN <<Line("fetch_tile", "Response body: {}",
                                      <<mn_response.content>>),
                                 Line("main", "HTTP error: {}", <<mn_exc>>)>>
                          ELSE <<Line("main", "Unexpected error: {}", <<mn_exc>>)>>
        /\ summary # <<>> =>
              /\ mn_decodes = 1
              /\ TileDecoder(mn_raw).ok
              /\ mn_decoded = [set |-> TRUE, tile |-> decode_tile(mn_raw).tile]
        /\ mn_exc = NoExc /\ mn_pc = "exited" =>
              mn_exit = Returns /\ mn_stderr = <<>>

\* C1 witness: the second layer of the buffer had a feature with one tag;
\* the run ended with status 1 and one line on stderr
C1_Witness ==
    /\ mn_pc = "exited"
    /\ mn_raw = layer_a_point \o layer_odd_tags
    /\ mn_exc.type = "MalformedFeature"
    /\ mn_decodes = 1
    /\ mn_exit = <<1>>
    /\ Len(mn_stderr) = 1

\* C2: decode_tile of an empty buffer returns the empty tile without
\* raising; summarize_layers then prints that no layers were found and,
\* with --print-geometry, print_geometries that there are no geometries,
\* and the run ends with status 0 and nothing on stderr.
C2_EmptyBufferIsEmptyTile ==
    mn_raw = <<>> /\ mn_decodes = 1 =>
        /\ mn_exc = NoExc
        /\ mn_decoded = [set |-> TRUE, tile |-> <<>>]
        /\ mn_pc \in {"geometries", "exited"} =>
              LinesBy(mn_stdout, {"summarize_layers"})
                 = <<Line("summarize_layers", "No layers found in the tile.", <<>>)>>
        /\ mn_pc = "exited" =>
              /\ mn_exit = Returns
              /\ mn_stderr = <<>>
              /\ LinesBy(mn_stdout, {"print_geometries"})
                    = IF mn_args.print_geometry
                      THEN <<Line("print_geometries", "\nNo geometries to display.", <<>>)>>
                      ELSE <<>>

\* C2 witness: a run with --print-geometry on an empty answer has ended
C2_Witness ==
    /\ mn_pc = "exited"
    /\ mn_response.kind = "response" /\ mn_response.content = <<>>
    /\ mn_decodes = 1
    /\ mn_args.print_geometry
    /\ mn_exit = Returns

\* C3: the tile that decode_tile returns has one layer for every Layer
\* field of the buffer, in the order of the buffer, and summarize_layers
\* and print_geometries visit them in that order, whatever their names.
C3_EveryLayerFieldYieldsALayer ==
    mn_decoded.set =>
        LET layers == TileDecoder(mn_raw).layers
        IN  /\ [k \in 1..Len(mn_decoded.tile) |-> mn_decoded.tile[k].k] = Names(layers)
            /\ mn_pc \in {"geometries", "exited"} /\ layers # <<>> =>
                  Visited("\nLayer: {} | feature count: {}") = Names(layers)

\* C3 failing input: a buffer of two Layer fields, both named a, was
\* decoded to a tile of one layer and summarize_layers visited one layer
C3_FailingInput ==
    /\ mn_pc = "exited"
    /\ mn_raw = layer_a_point \o layer_a_polygon
    /\ Len(TileDecoder(mn_raw).layers) = 2
    /\ Len(mn_decoded.tile) = 1
    /\ Len(Visited("\nLayer: {} | feature count: {}")) = 1

-----------------------------------------------------------------------------
(* C4: the consumers leave the tile as it was                              *)

RECURSIVE Size(_)
\* the number of lists and numbers in a geometry
Size(geom) ==
    IF geom.t # "list" \/ geom.items = <<>> THEN 1
    ELSE Size(Head(geom.items)) + Size(PyList(Tail(geom.items)))

\* C4: after any sequence of calls of summarize_layers, print_geometries,
\* truncate_geometry and print_selected_fields, with any max_features and
\* max_coords, the tile with its layers, features, properties and geometry
\* lists is as decode_tile returned it; what truncate_geometry returns is a
\* new list of the first max_coords items (all but the last -max_coords
\* when negative), each trimmed in the same way.
C4_ConsumersLeaveTileUnchanged ==
    /\ cs_tile = cs_tile0
    /\ cs_fn = "truncate_geometry" =>
          LET geom == cs_out[1].args[1]
              max_coords == cs_out[1].args[2]
              ret == cs_out[1].args[3]
          IN  /\ Len(ret.items) = Len(PySliceTo(geom.items, max_coords))
              /\ \A n \in 1..Len(ret.items) :
                    Size(ret.items[n]) <= Size(geom.items[n])

\* C4 witness: print_geometries printed a polygon feature with fewer
\* coordinates than the tile holds for it
C4_Witness ==
    /\ cs_fn = "print_geometries"
    /\ \E n \in 1..Len(cs_out) :
          /\ Len(cs_out[n].args) = 3
          /\ cs_out[n].args[2] = "Polygon"
          /\ Size(cs_out[n].args[3]) > 1
          /\ \E k \in 1..Len(cs_tile) :
                /\ cs_tile[k].v.features # <<>>
                /\ cs_tile[k].v.features[1].type = "Polygon"
                /\ Size(cs_tile[k].v.features[1].geometry)
                      > Size(cs_out[n].args[3])

-----------------------------------------------------------------------------
(* C5: ring classification of a Polygon geometry                           *)

\* the rings of the polygons in output order: of each polygon the exterior
\* ring, then its holes
OutputRings(polygons) ==
    Flatten([k \in 1..Len(polygons) |->
                polygons[k].exterior \o polygons[k].holes])

\* the area a producer's ring has, by its points
AreaOf(pts) == (CHOOSE r \in Rings : r.pts = pts).area2

the_square == <<Pt(0, 0), Pt(10, 0), Pt(10, 10), Pt(0, 10)>>
the_inner_square == <<Pt(2, 2), Pt(2, 8), Pt(8, 8), Pt(8, 2)>>

\* C5: the polygons assembled from a Polygon command stream hold the
\* stream's closed rings in order; a ring of signed area > 0 is the
\* exterior ring of a polygon of its own, a ring of signed area <= 0 is a
\* hole of the polygon started last, so that there are as many polygons as
\* rings of positive area (and one more, without exterior, when the first
\* ring is not one); the square followed by the smaller reverse-wound
\* square is one polygon with one exterior ring and one hole.
C5_RingsClassifiedBySignedArea ==
    ge_pc = "assembled" /\ ge_type = "Polygon" =>
        LET ps == ge_result.polygons
            positive == {k \in 1..Len(ge_rings) : ge_rings[k].area2 > 0}
            leading == IF ge_rings # <<>> /\ ge_rings[1].area2 <= 0 THEN 1 ELSE 0
        IN  /\ ge_result.ok
            /\ OutputRings(ps) = RingPoints(ge_rings)
            /\ Len(ps) = Cardinality(positive) + leading
            /\ ge_result.warnings = leading
            /\ \A k \in 1..Len(ps) :
                  /\ Len(ps[k].exterior) = (IF k = 1 /\ leading = 1 THEN 0 ELSE 1)
                  /\ \A e \in 1..Len(ps[k].exterior) : AreaOf(ps[k].exterior[e]) > 0
                  /\ \A h \in 1..Len(ps[k].holes) : AreaOf(ps[k].holes[h]) <= 0
            /\ RingPoints(ge_rings) = <<the_square, the_inner_square>> =>
                  ps = <<[exterior |-> <<the_square>>,
                          holes |-> <<the_inner_square>>]>>

\* C5 witness: the square and the reverse-wound inner square were
\* assembled into one polygon with one hole
C5_Witness ==
    /\ ge_pc = "assembled" /\ ge_type = "Polygon"
    /\ RingPoints(ge_rings) = <<the_square, the_inner_square>>
    /\ Len(ge_result.polygons) = 1
    /\ Len(ge_result.polygons[1].holes) = 1

-----------------------------------------------------------------------------
(* C6: adjust_matched_filter                                               *)

\* the query items of a URL, as parse_qsl reads them
QueryItems(url) == parse_qsl(urlsplit(url).query)

\* whether a query item is a filters[0] parameter
IsFilters0(item) == item.k = filters0
IsOther(item) == item.k # filters0

\* C6: with choice None the URL is returned unchanged; with 'any' the
\* result has no filters[0] parameter; with any other choice it has exactly
\* one, of value matched IN ('<choice>'). The other query parameters keep
\* their keys, values and order, and scheme, host, path and fragment are
\* unchanged. A second application with the same choice changes nothing.
C6_AdjustMatchedFilter ==
    am_pc \in {"once", "twice"} /\ am_once.exc = "none" =>
        LET before == urlsplit(am_url)
            after == urlsplit(am_once.url)
            filters == SelectSeq(QueryItems(am_once.url), IsFilters0)
        IN  /\ am_choice = NoChoice => am_once.url = am_url
            /\ am_choice = <<any>> => filters = <<>>
            /\ am_choice \notin {NoChoice, <<any>>} =>
                   filters = <<[k |-> filters0, v |-> MatchedIn(am_choice[1])]>>
            /\ SelectSeq(QueryItems(am_once.url), IsOther)
                   = SelectSeq(QueryItems(am_url), IsOther)
            /\ after.scheme = before.scheme
            /\ after.netloc = before.netloc
            /\ after.path = before.path
            /\ after.fragment = before.fragment
            /\ am_pc = "twice" => am_twice = am_once

\* C6 witness: 'true' was applied twice to a URL that held an encoded
\* filters[0] field before another field, and a fragment
C6_Witness ==
    /\ am_pc = "twice"
    /\ am_choice = <<<<"t", "r", "u", "e">>>>
    /\ Len(QueryItems(am_url)) = 2
    /\ IsFilters0(QueryItems(am_url)[1])
    /\ QueryItems(am_url)[1].v # MatchedIn(am_choice[1])
    /\ IsOther(QueryItems(am_url)[2])
    /\ urlsplit(am_url).fragment # <<>>
    /\ am_once.url # am_url

====
